---- MODULE Spec2Model ----
(***************************************************************************)
(* Model of the task-decomposition and multi-verifier consensus engine:    *)
(*   MAKEROrchestrator (maker_orchestrator.py) and                         *)
(*   QualityAgent      (quality_agent.py).                                 *)
(*                                                                         *)
(* together with the Hydra clients RealHydraLayer2 (hydra_layer2.py) and   *)
(* OperationsAgent (operations_agent.py).                                  *)
(*                                                                         *)
(* The specifications share the module:                                    *)
(*   SpecDecompose  one call of MAKEROrchestrator.decompose                *)
(*   SpecQuality    QualityAgent.verify / verify_with_voting rounds        *)
(*   SpecHash       QualityAgent.hash_result on two results                *)
(*   SpecVoting     one call of the voting functions on a round            *)
(*   SpecMaker      MAKEROrchestrator ledger, vote, execute                *)
(*   SpecHydra      RealHydraLayer2 heads and their transaction logs       *)
(*   SpecOps        OperationsAgent Hydra heads and metrics                *)
(*   SpecLeaf       one run over the leaves of a task: the DS-STAR         *)
(*                  pipeline (ds_star.py), Refiner.refine, or the          *)
(*                  component loop of MAKEROrchestrator.execute;           *)
(*                  SpecLeafFair adds the fairness of the event loop       *)
(***************************************************************************)
EXTENDS Integers, Sequences, FiniteSets, TLC

VARIABLES
    d_pc,       \* decompose: "call" before the body runs, "returned" after
    d_level,    \* decompose: argument decomposition_level
    d_depth,    \* decompose: argument max_depth
    d_ret,      \* decompose: the returned dict (NoReturn while d_pc = "call")
    q_pc,       \* QualityAgent: position of the running coroutine
    q_op,       \* QualityAgent: which entry point is running
    q_result,   \* QualityAgent.verify: the result being verified
    q_n,        \* multi_agent_verification: num_verifiers
    q_tasks,    \* the gathered verify_with_agent tasks, by agent_id + 1
    q_inputs,   \* verify_with_voting: the list of results handed in
    q_judgments,\* the list handed to apply_voting / returned by gather
    q_ret,      \* what the entry point returned or raised
    h_pc,       \* hash_result pair: "call" or "returned"
    h_a,        \* first result
    h_b,        \* second result
    h_fa,       \* hash_result(h_a)
    h_fb,       \* hash_result(h_b)
    v_pc,       \* one voting call: "call" or "returned"
    v_op,       \* which function is called
    v_inputs,   \* the list of results of the round
    v_vote,     \* the voting result handed to _calculate_quality_score
    v_ret,      \* what the call returned or raised
    m_ledger,   \* MAKEROrchestrator.reputation_scores
    m_op,       \* MAKEROrchestrator: the method called last
    m_arg,      \* its arguments
    m_ret,      \* what it returned
    y_session,  \* RealHydraLayer2.session is set (an aiohttp.ClientSession)
    y_heads,    \* RealHydraLayer2.heads
    y_op,       \* RealHydraLayer2: the method called last
    y_arg,      \* its arguments and the answer of the Hydra node
    y_ret,      \* what it returned or raised
    o_heads,    \* OperationsAgent.hydra_heads
    o_metrics,  \* OperationsAgent.metrics
    o_op,       \* OperationsAgent: the operation run last
    o_arg,      \* its context
    o_ret,      \* what it returned
    s_pc,       \* leaf run: position of the running coroutine
    s_op,       \* leaf run: DSSTARFramework.execute, Refiner.refine or
                \* MAKEROrchestrator.execute
    s_n,        \* number of leaves (plan steps, solutions or components)
    s_solutions,\* the solutions list of Solver.solve / handed to refine
    s_i,        \* index of the item the running loop is at
    s_busy,     \* the loop body is inside the awaited call for item s_i
    s_passed,   \* Tester.test: passed
    s_failed,   \* Tester.test: failed
    s_out,      \* refined_solutions of refine / results of execute
    s_ret       \* what the run returned

d_vars == <<d_pc, d_level, d_depth, d_ret>>
q_vars == <<q_pc, q_op, q_result, q_n, q_tasks, q_inputs, q_judgments, q_ret>>
h_vars == <<h_pc, h_a, h_b, h_fa, h_fb>>
v_vars == <<v_pc, v_op, v_inputs, v_vote, v_ret>>
m_vars == <<m_ledger, m_op, m_arg, m_ret>>
y_vars == <<y_session, y_heads, y_op, y_arg, y_ret>>
o_vars == <<o_heads, o_metrics, o_op, o_arg, o_ret>>
core_vars == <<d_vars, q_vars, h_vars, v_vars, m_vars>>
s_vars == <<s_pc, s_op, s_n, s_solutions, s_i, s_busy, s_passed, s_failed,
            s_out, s_ret>>
ext_vars == <<y_vars, o_vars, s_vars>>
vars == <<core_vars, ext_vars>>

(***************************************************************************)
(* Bounds of the model.                                                    *)
(***************************************************************************)
MaxTarget == 2200
MaxNegTarget == 11
MaxDepth == 4

Targets == (0 - MaxNegTarget)..MaxTarget
Depths == (0 - 1)..MaxDepth

(***************************************************************************)
(* MAKEROrchestrator.decompose                                             *)
(***************************************************************************)
ComponentCap == 10
SubtaskCap == 20
StepCap == 10
ComponentDivisor == 10

Min(a, b) == IF a <= b THEN a ELSE b
Max(a, b) == IF a >= b THEN a ELSE b

\* Python's range(n): empty for n <= 0.  Indices are shifted by one, the
\* element at position p stands for loop index p - 1.
Range(n) == 1..(IF n > 0 THEN n ELSE 0)

\* Python's a // b for b > 0 (floor division, also for negative a).
FloorDiv(a, b) == a \div b

\* line 58 without the min(..., 10) cap
MajorComponentsNoCap(level) == FloorDiv(level, ComponentDivisor)

\* line 58
MajorComponents(level) == Min(FloorDiv(level, ComponentDivisor), ComponentCap)

\* lines 67-68 with the depth test off by one (max_depth > 0)
SubCountDepthOff(level, major, depth) ==
    IF depth > 0 THEN Min(FloorDiv(level, major), SubtaskCap) ELSE 0

\* lines 67-68; evaluated inside the component loop only (major > 0)
SubCount(level, major, depth) ==
    IF depth > 1 THEN Min(FloorDiv(level, major), SubtaskCap) ELSE 0

\* lines 77-78 dividing by major_components alone
StepCountPerComponent(level, major, sub, depth) ==
    IF depth > 2 THEN Min(FloorDiv(level, major), StepCap) ELSE 0

\* lines 77-78; evaluated inside the subtask loop only (major * sub > 0)
StepCount(level, major, sub, depth) ==
    IF depth > 2 THEN Min(FloorDiv(level, major * sub), StepCap) ELSE 0

\* lines 70-85: one sub-component with its steps
MakeSub(level, major, sub, depth, i, j) ==
    [id    |-> <<"subtask", i, j>>,
     steps |-> [k \in Range(StepCount(level, major, sub, depth)) |->
                  [id |-> <<"step", i, j, k - 1>>]]]

\* lines 60-87: one component with its sub-components
MakeComponent(level, major, depth, i) ==
    LET sub == SubCount(level, major, depth) IN
    [id       |-> <<"component", i>>,
     subtasks |-> [j \in Range(sub) |->
                     MakeSub(level, major, sub, depth, i, j - 1)]]

\* lines 55-87
Components(level, depth) ==
    LET major == MajorComponents(level) IN
    [i \in Range(major) |-> MakeComponent(level, major, depth, i - 1)]

RECURSIVE SumSeq(_)
SumSeq(s) == IF s = <<>> THEN 0 ELSE Head(s) + SumSeq(Tail(s))

\* lines 89-93
TotalSteps(comps) ==
    SumSeq([c \in 1..Len(comps) |->
              IF comps[c].subtasks # <<>>
              THEN Len(comps[c].subtasks) * Len(comps[c].subtasks[1].steps)
              ELSE 1])

NoReturn == [status |-> "none", decomposition_level |-> 0, max_depth |-> 0,
             components |-> <<>>, total_steps |-> 0]

\* lines 58-78 with sub_count (line 68) computed ahead of the component loop
DivisorsEvaluatedHoisted(level, depth) ==
    LET major == MajorComponents(level) IN
    {ComponentDivisor}
    \cup (IF depth > 1 THEN {major} ELSE {})
    \cup (IF major > 0 /\ depth > 2 /\ SubCount(level, major, depth) > 0
          THEN {major * SubCount(level, major, depth)} ELSE {})

\* the divisors of the // of lines 58, 68 and 78 that a call evaluates:
\* line 68 runs inside the loop of line 59 (major_components > 0), line 78
\* inside the loops of lines 59 and 69 (sub_count > 0 as well)
DivisorsEvaluated(level, depth) ==
    LET major == MajorComponents(level) IN
    {ComponentDivisor}
    \cup (IF major > 0 /\ depth > 1 THEN {major} ELSE {})
    \cup (IF major > 0 /\ depth > 2 /\ SubCount(level, major, depth) > 0
          THEN {major * SubCount(level, major, depth)} ELSE {})

\* lines 55-104; a // by 0 raises ZeroDivisionError out of decompose
DecomposeResult(level, depth) ==
    IF 0 \in DivisorsEvaluated(level, depth)
    THEN [NoReturn EXCEPT !.status = "ZeroDivisionError"]
    ELSE LET comps == Components(level, depth) IN
         [status              |-> "decomposed",
          decomposition_level |-> level,
          max_depth           |-> depth,
          components          |-> comps,
          total_steps         |-> TotalSteps(comps)]

d_Init ==
    /\ d_pc = "call"
    /\ d_level \in Targets
    /\ d_depth \in Depths
    /\ d_ret = NoReturn

d_Idle ==
    /\ d_pc = "idle"
    /\ d_level = 0
    /\ d_depth = 0
    /\ d_ret = NoReturn

Decompose ==
    /\ d_pc = "call"
    /\ d_pc' = "returned"
    /\ d_ret' = DecomposeResult(d_level, d_depth)
    /\ UNCHANGED <<d_level, d_depth, q_vars, h_vars, v_vars, m_vars, ext_vars>>

(***************************************************************************)
(* Results: the structured values handed to QualityAgent.                  *)
(* A value is a record [t, n, s, sub]:                                     *)
(*   t = "int"    the Python int n                                         *)
(*   t = "float"  the Python float n.0                                     *)
(*   t = "str"    the Python str s                                         *)
(*   t = "set"    a Python set (not JSON serializable)                     *)
(*   t = "dict"   a Python dict, sub its items <<key, value>> in insertion *)
(*                order, keys distinct                                     *)
(***************************************************************************)
MaxInt == 2

PyInt(n)   == [t |-> "int",   n |-> n, s |-> "", sub |-> <<>>]
PyFloat(n) == [t |-> "float", n |-> n, s |-> "", sub |-> <<>>]
PyStr(s)   == [t |-> "str",   n |-> 0, s |-> s,  sub |-> <<>>]
PySet      == [t |-> "set",   n |-> 0, s |-> "", sub |-> <<>>]
PyDict(items) == [t |-> "dict", n |-> 0, s |-> "", sub |-> items]

Keys == {"a", "b"}

\* the order of Python's str comparison on Keys, as sort_keys uses it
KeyRank(k) == IF k = "a" THEN 1 ELSE 2

\* all dicts (every insertion order) with keys from Keys and values from V
DictsOver(V) ==
    {PyDict(<<>>)}
    \cup {PyDict(<< <<k, v>> >>) : k \in Keys, v \in V}
    \cup {PyDict(<< <<kk[1], v1>>, <<kk[2], v2>> >>) :
            kk \in {p \in Keys \X Keys : p[1] # p[2]}, v1 \in V, v2 \in V}

InnerAtoms == {PyInt(1), PyFloat(1)}
TopAtoms == {PyInt(n) : n \in 1..MaxInt} \cup {PyFloat(1), PyStr("1")}
InnerDicts == DictsOver(InnerAtoms)
HashInputs == DictsOver(TopAtoms \cup InnerDicts)

(***************************************************************************)
(* QualityAgent.hash_result                                                *)
(***************************************************************************)
RECURSIVE JsonSerializable(_)
JsonSerializable(v) ==
    /\ v.t # "set"
    /\ \A p \in 1..Len(v.sub) : JsonSerializable(v.sub[p][2])

\* json.dumps without sort_keys: the items stay in insertion order
SortItemsUnsorted(items) == items

\* the items of a dict in ascending key order (json.dumps sort_keys=True)
RECURSIVE SortItems(_)
SortItems(items) ==
    IF items = <<>> THEN <<>>
    ELSE LET m == CHOOSE p \in 1..Len(items) :
                    \A q \in 1..Len(items) :
                        KeyRank(items[p][1]) <= KeyRank(items[q][1])
             rest == [q \in 1..(Len(items) - 1) |->
                        IF q < m THEN items[q] ELSE items[q + 1]]
         IN <<items[m]>> \o SortItems(rest)

\* json.dumps(v, sort_keys=True) with the default separators ", " and ": "
RECURSIVE JsonDumps(_)
RECURSIVE JsonItems(_)
JsonItems(items) ==
    IF items = <<>> THEN ""
    ELSE LET one == "\"" \o items[1][1] \o "\": " \o JsonDumps(items[1][2])
         IN IF Len(items) = 1 THEN one
            ELSE one \o ", " \o JsonItems(Tail(items))
JsonDumps(v) ==
    CASE v.t = "int"   -> ToString(v.n)
      [] v.t = "float" -> ToString(v.n) \o ".0"
      [] v.t = "str"   -> "\"" \o v.s \o "\""
      [] v.t = "dict"  -> "{" \o JsonItems(SortItems(v.sub)) \o "}"

\* hashlib.sha256(...).hexdigest(): a collision-free digest of the string
Sha256Hex(str) == "sha256:" \o str

\* lines 163-175; json.dumps raises TypeError on a value it cannot encode
hash_result(result) ==
    IF JsonSerializable(result)
    THEN [raised |-> "", hash |-> Sha256Hex(JsonDumps(result))]
    ELSE [raised |-> "TypeError", hash |-> ""]

h_Init ==
    /\ h_pc = "call"
    /\ h_a \in HashInputs
    /\ h_b \in HashInputs
    /\ h_fa = ""
    /\ h_fb = ""

h_Idle ==
    /\ h_pc = "idle"
    /\ h_a = PyDict(<<>>)
    /\ h_b = PyDict(<<>>)
    /\ h_fa = ""
    /\ h_fb = ""

HashBoth ==
    /\ h_pc = "call"
    /\ h_pc' = "returned"
    /\ h_fa' = hash_result(h_a).hash
    /\ h_fb' = hash_result(h_b).hash
    /\ UNCHANGED <<h_a, h_b, d_vars, q_vars, v_vars, m_vars, ext_vars>>

(***************************************************************************)
(* QualityAgent: apply_voting, _calculate_quality_score                    *)
(* A Python float that is a quotient of small integers is kept as the      *)
(* exact fraction [num, den].                                              *)
(***************************************************************************)
MaxVerifiers == 4
MaxResults == 4
DefaultVerifiers == 3
ThresholdTenths == 7
BonusTenths == 1

Frac(a, b) == [num |-> a, den |-> b]
FracGeq(x, y) == x.num * y.den >= y.num * x.den
FracAdd(x, y) == Frac(x.num * y.den + y.num * x.den, x.den * y.den)
FracMin(x, y) == IF FracGeq(y, x) THEN x ELSE y
FracEq(x, y) == x.num * y.den = y.num * x.den

\* lines 191-196 opening a new group for every judgment
GroupKeysNoDedup(vs) == [p \in 1..Len(vs) |-> vs[p].hash]

\* lines 191-196: the keys of hash_groups in insertion order
RECURSIVE GroupKeys(_)
GroupKeys(vs) ==
    IF vs = <<>> THEN <<>>
    ELSE LET front == GroupKeys(SubSeq(vs, 1, Len(vs) - 1))
             h == vs[Len(vs)].hash
         IN IF \E p \in 1..Len(front) : front[p] = h
            THEN front ELSE Append(front, h)

\* len(hash_groups[h])
GroupSize(vs, h) == Cardinality({p \in 1..Len(vs) : vs[p].hash = h})

\* line 199 with min in place of max
MajorityIndexMin(vs, keys) ==
    CHOOSE p \in 1..Len(keys) :
        /\ \A q \in 1..Len(keys) : GroupSize(vs, keys[p]) <= GroupSize(vs, keys[q])
        /\ \A q \in 1..(p - 1) : GroupSize(vs, keys[p]) < GroupSize(vs, keys[q])

\* line 199 returning the last key of maximal group size
MajorityIndexLast(vs, keys) ==
    CHOOSE p \in 1..Len(keys) :
        /\ \A q \in 1..Len(keys) : GroupSize(vs, keys[q]) <= GroupSize(vs, keys[p])
        /\ \A q \in (p + 1)..Len(keys) : GroupSize(vs, keys[q]) < GroupSize(vs, keys[p])

\* line 199: max(keys, key=...) returns the first key of maximal group size
MajorityIndex(vs, keys) ==
    CHOOSE p \in 1..Len(keys) :
        /\ \A q \in 1..Len(keys) : GroupSize(vs, keys[q]) <= GroupSize(vs, keys[p])
        /\ \A q \in 1..(p - 1) : GroupSize(vs, keys[q]) < GroupSize(vs, keys[p])

NoVoting == [raised |-> "", majority_hash |-> "", majority_count |-> 0,
             total_verifiers |-> 0, consensus_strength |-> Frac(0, 1),
             hash_groups |-> <<>>, all_agree |-> FALSE]

\* lines 177-213 with all_agree set when a strict majority agrees
apply_voting_majority_agrees(vs) ==
    LET keys == GroupKeys(vs) IN
    IF keys = <<>>
    THEN [NoVoting EXCEPT !.raised = "ValueError"]
    ELSE LET majority_hash == keys[MajorityIndex(vs, keys)]
             majority_count == GroupSize(vs, majority_hash)
             total_count == Len(vs)
         IN [raised             |-> "",
             majority_hash      |-> majority_hash,
             majority_count     |-> majority_count,
             total_verifiers    |-> total_count,
             consensus_strength |-> Frac(majority_count, total_count),
             hash_groups        |-> [p \in 1..Len(keys) |->
                                       <<keys[p], GroupSize(vs, keys[p])>>],
             all_agree          |-> 2 * majority_count > total_count]

\* lines 177-213; max() of an empty sequence raises ValueError (line 199)
apply_voting(vs) ==
    LET keys == GroupKeys(vs) IN
    IF keys = <<>>
    THEN [NoVoting EXCEPT !.raised = "ValueError"]
    ELSE LET majority_hash == keys[MajorityIndex(vs, keys)]
             majority_count == GroupSize(vs, majority_hash)
             total_count == Len(vs)
         IN [raised             |-> "",
             majority_hash      |-> majority_hash,
             majority_count     |-> majority_count,
             total_verifiers    |-> total_count,
             consensus_strength |-> Frac(majority_count, total_count),
             hash_groups        |-> [p \in 1..Len(keys) |->
                                       <<keys[p], GroupSize(vs, keys[p])>>],
             all_agree          |-> Len(keys) = 1]

\* lines 215-235 without the min(1.0, ...) cap
calculate_quality_score_uncapped(verified_result) ==
    LET bonus == IF verified_result.all_agree
                 THEN Frac(BonusTenths, 10) ELSE Frac(0, 1)
    IN FracAdd(verified_result.consensus_strength, bonus)

\* lines 215-235 granting the bonus of line 230 to every round
calculate_quality_score_bonus_always(verified_result) ==
    FracMin(Frac(1, 1), FracAdd(verified_result.consensus_strength,
                                Frac(BonusTenths, 10)))

\* lines 215-235
calculate_quality_score(verified_result) ==
    LET bonus == IF verified_result.all_agree
                 THEN Frac(BonusTenths, 10) ELSE Frac(0, 1)
    IN FracMin(Frac(1, 1), FracAdd(verified_result.consensus_strength, bonus))

\* the threshold test with > in place of >=
MeetsThresholdStrict(score) == ~FracGeq(Frac(ThresholdTenths, 10), score)

\* score >= self.verification_threshold (lines 36, 102, 268)
MeetsThreshold(score) == FracGeq(score, Frac(ThresholdTenths, 10))

(***************************************************************************)
(* QualityAgent: what an entry point returned or raised.                   *)
(*   verify:             verified, quality_score, confidence (= score),    *)
(*                       count = verification_count, voting = details      *)
(*   verify_with_voting: verified, confidence, count = result_count,       *)
(*                       voting = voting_result                            *)
(*   multi_agent_verification: the list is q_judgments, count its length   *)
(*   execute_task:       the verdict of verify, or error = str(e) with     *)
(*                       verified False and quality_score 0.0              *)
(***************************************************************************)
NoRet == [kind |-> "none", exc |-> "", error |-> "", verified |-> FALSE,
          quality_score |-> Frac(0, 1), confidence |-> Frac(0, 1),
          count |-> 0, voting |-> NoVoting]

Raise(exc) == [NoRet EXCEPT !.kind = "raise", !.exc = exc]

\* lines 98-107
VerifyReturn(judgments) ==
    LET verified_result == apply_voting(judgments) IN
    IF verified_result.raised # "" THEN Raise(verified_result.raised)
    ELSE LET quality_score == calculate_quality_score(verified_result) IN
         [kind          |-> "return",
          exc           |-> "",
          error         |-> "",
          verified      |-> MeetsThreshold(quality_score),
          quality_score |-> quality_score,
          confidence    |-> quality_score,
          count         |-> Len(judgments),
          voting        |-> verified_result]

\* lines 250-258: hashed_results, or the exception hash_result raised
HashedResults(results) ==
    [idx \in 1..Len(results) |->
        [agent_id |-> <<"agent", idx - 1>>,
         hash     |-> hash_result(results[idx]).hash,
         is_valid |-> TRUE]]

\* lines 237-272
VerifyWithVotingReturn(results) ==
    IF \E idx \in 1..Len(results) : hash_result(results[idx]).raised # ""
    THEN Raise("TypeError")
    ELSE LET voting_result == apply_voting(HashedResults(results)) IN
         IF voting_result.raised # "" THEN Raise(voting_result.raised)
         ELSE LET confidence == voting_result.consensus_strength IN
              [kind          |-> "return",
               exc           |-> "",
               error         |-> "",
               verified      |-> MeetsThreshold(confidence),
               quality_score |-> Frac(0, 1),
               confidence    |-> confidence,
               count         |-> Len(results),
               voting        |-> voting_result]

\* lines 39-78 with `except ValueError` in place of `except Exception`
ExecuteTaskReturnValueErrorOnly(r) ==
    IF r.kind = "raise" /\ r.exc = "ValueError"
    THEN [NoRet EXCEPT !.kind = "return", !.error = r.exc,
                       !.verified = FALSE, !.quality_score = Frac(0, 1)]
    ELSE r

\* lines 39-78: what execute_task returns when the body of its try block
\* returned or raised r (the metadata of lines 60-65 is left out)
ExecuteTaskReturn(r) ==
    IF r.kind = "raise"
    THEN [NoRet EXCEPT !.kind = "return", !.error = r.exc,
                       !.verified = FALSE, !.quality_score = Frac(0, 1)]
    ELSE r

\* what the entry point op hands to its caller when its round ended with r
Finish(op, r) == IF op = "execute_task" THEN ExecuteTaskReturn(r) ELSE r

QResults == {PyDict(<<>>),
             PyDict(<< <<"a", PyInt(1)>> >>),
             PyDict(<< <<"a", PyFloat(1)>> >>),
             PyDict(<< <<"a", PySet>> >>)}

ResultLists == UNION {[1..k -> QResults] : k \in 0..MaxResults}

NoTask == [st |-> "none", hash |-> "", is_valid |-> FALSE]

q_Init ==
    /\ q_pc = "idle"
    /\ q_op = ""
    /\ q_result = PyDict(<<>>)
    /\ q_n = 0
    /\ q_tasks = <<>>
    /\ q_inputs = <<>>
    /\ q_judgments = <<>>
    /\ q_ret = NoRet

\* lines 120-129: the tasks of one round, all waiting in asyncio.sleep
StartRound(op, result, n) ==
    /\ q_pc = "idle"
    /\ q_pc' = "gather"
    /\ q_op' = op
    /\ q_result' = result
    /\ q_n' = n
    /\ q_tasks' = [i \in Range(n) |-> [NoTask EXCEPT !.st = "sleeping"]]
    /\ UNCHANGED <<q_inputs, q_judgments, q_ret, d_vars, h_vars, v_vars, m_vars, ext_vars>>

\* verify (line 93): the round is started with the default num_verifiers
Verify ==
    \E result \in QResults : StartRound("verify", result, DefaultVerifiers)

\* execute_task (lines 52-57) with context None or a dict: verify is awaited
\* on context.get("results", {}), or on {} for a context that is None
ExecuteTask ==
    \E result \in QResults : StartRound("execute_task", result, DefaultVerifiers)

\* execute_task (line 54) with a non-empty context that has no get method:
\* the AttributeError is raised inside the try block
ExecuteTaskBadContext ==
    /\ q_pc = "idle"
    /\ q_pc' = "done"
    /\ q_op' = "execute_task"
    /\ q_ret' = ExecuteTaskReturn(Raise("AttributeError"))
    /\ UNCHANGED <<q_result, q_n, q_tasks, q_inputs, q_judgments,
                   d_vars, h_vars, v_vars, m_vars, ext_vars>>

\* multi_agent_verification called with num_verifiers = n
MultiAgentVerification ==
    \E result \in QResults, n \in 0..MaxVerifiers :
        StartRound("multi_agent_verification", result, n)

\* lines 133-161: task i wakes up and returns its judgment, or raises
VerifyWithAgent ==
    \E i \in 1..Len(q_tasks) :
        /\ q_tasks[i].st = "sleeping"
        /\ LET h == hash_result(q_result) IN
           q_tasks' = [q_tasks EXCEPT ![i] =
               IF h.raised # ""
               THEN [st |-> "raised", hash |-> "", is_valid |-> FALSE]
               ELSE [st |-> "done", hash |-> h.hash,
                     is_valid |-> Len(h.hash) > 0]]
        /\ UNCHANGED <<q_pc, q_op, q_result, q_n, q_inputs, q_judgments,
                       q_ret, d_vars, h_vars, v_vars, m_vars, ext_vars>>

\* line 129 returning as soon as one task is done (a first-completed wait)
GatherReturnFirstCompleted ==
    /\ q_pc = "gather"
    /\ \E i \in 1..Len(q_tasks) : q_tasks[i].st = "done"
    /\ q_judgments' = [i \in 1..Len(q_tasks) |->
                         [agent_id |-> <<"verifier", i - 1>>,
                          hash     |-> q_tasks[i].hash,
                          is_valid |-> q_tasks[i].is_valid]]
    /\ IF q_op \in {"verify", "execute_task"}
       THEN /\ q_pc' = "voting"
            /\ q_ret' = q_ret
       ELSE /\ q_pc' = "done"
            /\ q_ret' = [NoRet EXCEPT !.kind = "return", !.count = Len(q_tasks)]
    /\ UNCHANGED <<q_op, q_result, q_n, q_tasks, q_inputs, d_vars, h_vars, v_vars, m_vars, ext_vars>>

\* line 129: gather returns the judgments in task order once all are done
GatherReturn ==
    /\ q_pc = "gather"
    /\ \A i \in 1..Len(q_tasks) : q_tasks[i].st = "done"
    /\ q_judgments' = [i \in 1..Len(q_tasks) |->
                         [agent_id |-> <<"verifier", i - 1>>,
                          hash     |-> q_tasks[i].hash,
                          is_valid |-> q_tasks[i].is_valid]]
    /\ IF q_op \in {"verify", "execute_task"}
       THEN /\ q_pc' = "voting"
            /\ q_ret' = q_ret
       ELSE /\ q_pc' = "done"
            /\ q_ret' = [NoRet EXCEPT !.kind = "return", !.count = Len(q_tasks)]
    /\ UNCHANGED <<q_op, q_result, q_n, q_tasks, q_inputs, d_vars, h_vars, v_vars, m_vars, ext_vars>>

\* line 129: gather (return_exceptions=False) propagates the first exception
\* a task raised; nothing in verify or multi_agent_verification catches it
GatherRaise ==
    /\ q_pc = "gather"
    /\ \E i \in 1..Len(q_tasks) : q_tasks[i].st = "raised"
    /\ q_pc' = "done"
    /\ q_ret' = Finish(q_op, Raise("TypeError"))
    /\ UNCHANGED <<q_op, q_result, q_n, q_tasks, q_inputs, q_judgments,
                   d_vars, h_vars, v_vars, m_vars, ext_vars>>

\* lines 96-107
VerifyVote ==
    /\ q_pc = "voting"
    /\ q_pc' = "done"
    /\ q_ret' = Finish(q_op, VerifyReturn(q_judgments))
    /\ UNCHANGED <<q_op, q_result, q_n, q_tasks, q_inputs, q_judgments,
                   d_vars, h_vars, v_vars, m_vars, ext_vars>>

\* lines 237-272, one call
VerifyWithVoting ==
    \E results \in ResultLists :
        /\ q_pc = "idle"
        /\ q_pc' = "done"
        /\ q_op' = "verify_with_voting"
        /\ q_inputs' = results
        /\ q_judgments' =
             IF \E idx \in 1..Len(results) : hash_result(results[idx]).raised # ""
             THEN <<>> ELSE HashedResults(results)
        /\ q_ret' = VerifyWithVotingReturn(results)
        /\ UNCHANGED <<q_result, q_n, q_tasks, d_vars, h_vars, v_vars, m_vars, ext_vars>>

(***************************************************************************)
(* QualityAgent: one call of the voting functions on a round of any size.  *)
(* The round is the list of results of the verifiers; the judgment of      *)
(* verifier idx carries hash_result(results[idx]).                         *)
(***************************************************************************)
MaxRound == 10
MaxMixedRound == 6

\* three results with three different fingerprints
VoteResults == {PyDict(<<>>),
                PyDict(<< <<"a", PyInt(1)>> >>),
                PyDict(<< <<"a", PyFloat(1)>> >>)}

\* rounds of up to MaxRound verifiers split between two fingerprints, and
\* rounds of up to MaxMixedRound verifiers split between three
RoundLists ==
    UNION {[1..k -> VoteResults \ {PyDict(<<>>)}] : k \in 0..MaxRound}
    \cup UNION {[1..k -> VoteResults] : k \in 0..MaxMixedRound}

\* voting results as a caller of _calculate_quality_score may hand them in
VotingInputs ==
    {[NoVoting EXCEPT !.consensus_strength = Frac(k, n), !.all_agree = b] :
        k \in 0..MaxRound, n \in 1..MaxRound, b \in BOOLEAN}

v_Idle ==
    /\ v_pc = "idle"
    /\ v_op = ""
    /\ v_inputs = <<>>
    /\ v_vote = NoVoting
    /\ v_ret = NoRet

v_Init ==
    /\ v_pc = "call"
    /\ v_ret = NoRet
    /\ \/ /\ v_op \in {"verify_with_voting", "apply_voting"}
          /\ v_inputs \in RoundLists
          /\ v_vote = NoVoting
       \/ /\ v_op = "calculate_quality_score"
          /\ v_inputs = <<>>
          /\ v_vote \in {x \in VotingInputs :
                           x.consensus_strength.num <= x.consensus_strength.den}

\* lines 237-272 on the drawn round
VerifyWithVotingCall ==
    /\ v_pc = "call"
    /\ v_op = "verify_with_voting"
    /\ v_pc' = "returned"
    /\ v_ret' = VerifyWithVotingReturn(v_inputs)
    /\ UNCHANGED <<v_op, v_inputs, v_vote, d_vars, q_vars, h_vars, m_vars, ext_vars>>

\* lines 96-107 on the judgments of the drawn round: apply_voting, then
\* _calculate_quality_score and the threshold test
ApplyVotingCall ==
    /\ v_pc = "call"
    /\ v_op = "apply_voting"
    /\ v_pc' = "returned"
    /\ v_ret' = VerifyReturn(HashedResults(v_inputs))
    /\ UNCHANGED <<v_op, v_inputs, v_vote, d_vars, q_vars, h_vars, m_vars, ext_vars>>

\* lines 215-235 on the drawn voting result
CalculateQualityScoreCall ==
    /\ v_pc = "call"
    /\ v_op = "calculate_quality_score"
    /\ v_pc' = "returned"
    /\ v_ret' = [NoRet EXCEPT !.kind = "return",
                              !.quality_score = calculate_quality_score(v_vote),
                              !.voting = v_vote]
    /\ UNCHANGED <<v_op, v_inputs, v_vote, d_vars, q_vars, h_vars, m_vars, ext_vars>>

(***************************************************************************)
(* MAKEROrchestrator: reputation ledger, vote, execute                     *)
(* reputation_scores is a function from the agent ids written so far to    *)
(* their scores; a weight reputation / 100.0 is the fraction [rep, 100].   *)
(***************************************************************************)
MaxVoters == 3
ScoreOver == 5
DefaultReputation == 50
ConsensusHundredths == 66
ComponentConfidence == 85

\* f"voter-{voter_id}"
VoterName(i) == "voter-" \o ToString(i)

AgentIds == {VoterName(i) : i \in 0..(MaxVoters - 1)}

\* the scores callers hand to update_reputation
ScoreInputs == {0 - ScoreOver, 0, 34, 66, 100, 100 + ScoreOver}

EmptyLedger == [a \in {} |-> 0]

\* dict.get(key, default)
Get(ledger, key, default) ==
    IF key \in DOMAIN ledger THEN ledger[key] ELSE default

\* line 253 without the lower bound: min(100, score)
ClampUpperOnly(score) == Min(100, score)

\* line 253: max(0, min(100, score))
Clamp(score) == Max(0, Min(100, score))

\* lines 188-202 giving every voter the weight 1.0
GenerateVoteUnweighted(ledger, voter_id) ==
    LET reputation == Get(ledger, VoterName(voter_id), DefaultReputation) IN
    [voter_id   |-> VoterName(voter_id),
     vote       |-> "approve",
     reputation |-> reputation,
     weight     |-> Frac(100, 100)]

\* lines 188-202 with a voter below the default reputation rejecting
GenerateVoteByReputation(ledger, voter_id) ==
    LET reputation == Get(ledger, VoterName(voter_id), DefaultReputation) IN
    [voter_id   |-> VoterName(voter_id),
     vote       |-> IF reputation < DefaultReputation THEN "reject"
                    ELSE "approve",
     reputation |-> reputation,
     weight     |-> Frac(reputation, 100)]

\* lines 188-202
GenerateVote(ledger, voter_id) ==
    LET reputation == Get(ledger, VoterName(voter_id), DefaultReputation) IN
    [voter_id   |-> VoterName(voter_id),
     vote       |-> "approve",
     reputation |-> reputation,
     weight     |-> Frac(reputation, 100)]

NoMakerRet == [kind |-> "none", strength |-> Frac(0, 1), result |-> "",
               approve_votes |-> 0, total_votes |-> 0, votes |-> <<>>,
               status |-> "", total_steps |-> 0, components_completed |-> 0,
               results |-> <<>>, confidence |-> Frac(0, 1)]

\* sum(v["weight"] for v in votes if keep(v)), in hundredths
WeightSum(votes, approveOnly) ==
    SumSeq([p \in 1..Len(votes) |->
              IF approveOnly /\ votes[p].vote # "approve"
              THEN 0 ELSE votes[p].weight.num])

\* lines 225-241 with the share of the approving votes, not of their weight
calculate_consensus_by_count(votes) ==
    IF votes = <<>>
    THEN [NoMakerRet EXCEPT !.kind = "return", !.result = "no_consensus"]
    ELSE LET approve_votes ==
                 Cardinality({p \in 1..Len(votes) : votes[p].vote = "approve"})
             consensus_strength == Frac(approve_votes, Len(votes))
         IN [NoMakerRet EXCEPT
               !.kind = "return",
               !.strength = consensus_strength,
               !.result = IF FracGeq(consensus_strength,
                                     Frac(ConsensusHundredths, 100))
                          THEN "approved" ELSE "rejected",
               !.approve_votes = approve_votes,
               !.total_votes = Len(votes),
               !.votes = votes]

\* lines 225-241 without the early return of lines 227-228
calculate_consensus_no_early_return(votes) ==
    LET total_weight == WeightSum(votes, FALSE)
        approve_weight == WeightSum(votes, TRUE)
        consensus_strength ==
            IF total_weight > 0 THEN Frac(approve_weight, total_weight)
            ELSE Frac(0, 1)
    IN [NoMakerRet EXCEPT
          !.kind = "return",
          !.strength = consensus_strength,
          !.result = IF FracGeq(consensus_strength,
                                Frac(ConsensusHundredths, 100))
                     THEN "approved" ELSE "rejected",
          !.approve_votes =
              Cardinality({p \in 1..Len(votes) : votes[p].vote = "approve"}),
          !.total_votes = Len(votes),
          !.votes = votes]

\* lines 225-241
calculate_consensus(votes) ==
    IF votes = <<>>
    THEN [NoMakerRet EXCEPT !.kind = "return", !.result = "no_consensus"]
    ELSE LET total_weight == WeightSum(votes, FALSE)
             approve_weight == WeightSum(votes, TRUE)
             consensus_strength ==
                 IF total_weight > 0 THEN Frac(approve_weight, total_weight)
                 ELSE Frac(0, 1)
         IN [NoMakerRet EXCEPT
               !.kind = "return",
               !.strength = consensus_strength,
               !.result = IF FracGeq(consensus_strength,
                                     Frac(ConsensusHundredths, 100))
                          THEN "approved" ELSE "rejected",
               !.approve_votes =
                   Cardinality({p \in 1..Len(votes) : votes[p].vote = "approve"}),
               !.total_votes = Len(votes),
               !.votes = votes]

\* lines 167-171: the votes of voters 0 .. num_voters - 1
Votes(ledger, num_voters) ==
    [p \in Range(num_voters) |-> GenerateVote(ledger, p - 1)]

\* lines 136-146
ExecuteComponent(component) ==
    [component_id       |-> component.id,
     status             |-> "completed",
     subtasks_completed |-> Len(component.subtasks),
     confidence         |-> Frac(ComponentConfidence, 100)]

\* lines 243-249 returning the sum of line 249 undivided
CalculateConfidenceSum(results) ==
    IF results = <<>> THEN Frac(0, 1)
    ELSE Frac(SumSeq([p \in 1..Len(results) |-> results[p].confidence.num]),
              100)

\* lines 243-249: sum(confidences) / len(confidences), 0.0 without results
CalculateConfidence(results) ==
    IF results = <<>> THEN Frac(0, 1)
    ELSE Frac(SumSeq([p \in 1..Len(results) |-> results[p].confidence.num]),
              100 * Len(results))

\* lines 106-134
ExecuteResult(decomposed_task) ==
    LET results == [p \in 1..Len(decomposed_task.components) |->
                      ExecuteComponent(decomposed_task.components[p])]
    IN [NoMakerRet EXCEPT
          !.kind = "return",
          !.status = "completed",
          !.total_steps = decomposed_task.total_steps,
          !.components_completed = Len(results),
          !.results = results,
          !.confidence = CalculateConfidence(results)]

\* the decompositions the orchestrator is asked for in this specification
MakerLevels == {5, 10, 35}
MakerDepths == {1, 3}

NoArg == [agent |-> "", score |-> 0, num_voters |-> 0, outcomes |-> <<>>,
          level |-> 0, depth |-> 0]

m_Init ==
    /\ m_ledger = EmptyLedger
    /\ m_op = ""
    /\ m_arg = NoArg
    /\ m_ret = NoMakerRet

\* lines 251-254
UpdateReputation ==
    \E agent_id \in AgentIds, score \in ScoreInputs :
        /\ m_ledger' = [a \in DOMAIN m_ledger \cup {agent_id} |->
                          IF a = agent_id THEN Clamp(score) ELSE m_ledger[a]]
        /\ m_op' = "update_reputation"
        /\ m_arg' = [NoArg EXCEPT !.agent = agent_id, !.score = score]
        /\ m_ret' = [NoMakerRet EXCEPT !.kind = "return"]
        /\ UNCHANGED <<d_vars, q_vars, h_vars, v_vars, ext_vars>>

\* lines 148-186 with setdefault in place of get: unseen voters are written
VoteSetDefault ==
    \E num_voters \in 0..MaxVoters :
        /\ m_op' = "vote"
        /\ m_arg' = [NoArg EXCEPT !.num_voters = num_voters]
        /\ m_ret' = calculate_consensus(Votes(m_ledger, num_voters))
        /\ m_ledger' = [a \in DOMAIN m_ledger \cup
                                 {VoterName(i - 1) : i \in Range(num_voters)} |->
                          Get(m_ledger, a, DefaultReputation)]
        /\ UNCHANGED <<d_vars, q_vars, h_vars, v_vars, ext_vars>>

\* lines 148-186
Vote ==
    \E num_voters \in 0..MaxVoters :
        /\ m_op' = "vote"
        /\ m_arg' = [NoArg EXCEPT !.num_voters = num_voters]
        /\ m_ret' = calculate_consensus(Votes(m_ledger, num_voters))
        /\ UNCHANGED <<m_ledger, d_vars, q_vars, h_vars, v_vars, ext_vars>>

\* lines 225-241 called on votes whose outcome the voters chose themselves
CalculateConsensus ==
    \E num_voters \in 0..MaxVoters :
        \E outcomes \in [1..num_voters -> {"approve", "reject"}] :
            /\ m_op' = "calculate_consensus"
            /\ m_arg' = [NoArg EXCEPT !.num_voters = num_voters,
                                      !.outcomes = outcomes]
            /\ m_ret' = calculate_consensus(
                   [p \in 1..num_voters |->
                      [GenerateVote(m_ledger, p - 1) EXCEPT !.vote = outcomes[p]]])
            /\ UNCHANGED <<m_ledger, d_vars, q_vars, h_vars, v_vars, ext_vars>>

\* lines 35-104, called on the orchestrator that holds the ledger
MakerDecompose ==
    \E level \in MakerLevels, depth \in MakerDepths :
        /\ m_op' = "decompose"
        /\ m_arg' = [NoArg EXCEPT !.level = level, !.depth = depth]
        /\ m_ret' = LET t == DecomposeResult(level, depth) IN
                    [NoMakerRet EXCEPT !.kind = "return",
                                       !.status = t.status,
                                       !.total_steps = t.total_steps,
                                       !.components_completed = Len(t.components)]
        /\ UNCHANGED <<m_ledger, d_vars, q_vars, h_vars, v_vars, ext_vars>>

\* lines 106-134 on a decomposed task
Execute ==
    \E level \in MakerLevels, depth \in MakerDepths :
        /\ m_op' = "execute"
        /\ m_arg' = [NoArg EXCEPT !.level = level, !.depth = depth]
        /\ m_ret' = ExecuteResult(DecomposeResult(level, depth))
        /\ UNCHANGED <<m_ledger, d_vars, q_vars, h_vars, v_vars, ext_vars>>

(***************************************************************************)
(* RealHydraLayer2: heads and their transaction logs                       *)
(* heads is a function from the head ids created so far to                 *)
(* [status, transactions, simulated]; the Hydra node answers a request     *)
(* with status 200, with another status, or not at all (ClientError).      *)
(***************************************************************************)
MaxHydraHeads == 2
MaxHydraTx == 2

RECURSIVE Zeros(_)
Zeros(k) == IF k <= 0 THEN "" ELSE "0" \o Zeros(k - 1)

\* format(n, "0{width}d") for n >= 0
ZeroPad(n, width) == Zeros(width - Len(ToString(n))) \o ToString(n)

Responses == {"200", "500", "down"}
NodeHeadIds == {"node-head-a"}
\* result.get('transactionId', ...): "" when the node's answer has none
NodeTxIds == {"node-tx", ""}
HydraTxs == {"pay-100"}
UnknownHead == "no-such-head"

NoHydraArg == [head |-> "", tx |-> "", response |-> ""]
NoHydraRet == [kind |-> "none", exc |-> "", value |-> "", count |-> 0,
               simulated |-> FALSE]

\* lines 71-75 and 88-93
NewHead(simulated) ==
    [status |-> "created", transactions |-> <<>>, simulated |-> simulated]

\* d[key] = value
Put(d, key, value) ==
    [k \in DOMAIN d \cup {key} |-> IF k = key THEN value ELSE d[k]]

\* lines 23-34
y_Init ==
    /\ y_session = FALSE
    /\ y_heads = [h \in {} |-> NewHead(FALSE)]
    /\ y_op = ""
    /\ y_arg = NoHydraArg
    /\ y_ret = NoHydraRet

\* lines 48-94
CreateHead ==
    \E response \in Responses, node_id \in NodeHeadIds :
        /\ Cardinality(DOMAIN y_heads) < MaxHydraHeads
        /\ y_session' = TRUE
        /\ y_op' = "create_head"
        /\ y_arg' = [NoHydraArg EXCEPT !.response = response]
        /\ CASE response = "200" ->
                  /\ y_heads' = Put(y_heads, node_id, NewHead(FALSE))
                  /\ y_ret' = [NoHydraRet EXCEPT !.kind = "return",
                                                 !.value = node_id]
             [] response = "500" ->
                  /\ y_heads' = y_heads
                  /\ y_ret' = [NoHydraRet EXCEPT !.kind = "raise",
                                                 !.exc = "Hydra head creation failed"]
             [] response = "down" ->
                  LET head_id == "hydra-head-" \o
                                 ZeroPad(Cardinality(DOMAIN y_heads) + 1, 4)
                  IN /\ y_heads' = Put(y_heads, head_id, NewHead(TRUE))
                     /\ y_ret' = [NoHydraRet EXCEPT !.kind = "return",
                                                    !.value = head_id,
                                                    !.simulated = TRUE]
        /\ UNCHANGED <<core_vars, o_vars, s_vars>>

\* lines 96-118: lines 110, 114 and 118 all set the status, also when the
\* session is missing (AttributeError caught at line 116); an unknown head
\* raises KeyError out of line 118
OpenHead ==
    \E head_id \in DOMAIN y_heads \cup {UnknownHead} :
        /\ y_op' = "open_head"
        /\ y_arg' = [NoHydraArg EXCEPT !.head = head_id]
        /\ IF head_id \in DOMAIN y_heads
           THEN /\ y_heads' = [y_heads EXCEPT ![head_id].status = "open"]
                /\ y_ret' = [NoHydraRet EXCEPT !.kind = "return"]
           ELSE /\ y_heads' = y_heads
                /\ y_ret' = [NoHydraRet EXCEPT !.kind = "raise",
                                               !.exc = "KeyError"]
        /\ UNCHANGED <<y_session, core_vars, o_vars, s_vars>>

\* lines 120-168: a 200 answer appends the confirmed record (lines 139-151);
\* any other answer, no answer and a missing session end in the handler of
\* line 156, which appends the simulated record (lines 159-168); an unknown
\* head raises KeyError out of line 159
SubmitTransactionBody(head_id, tx, response, node_tx) ==
    /\ y_op' = "submit_transaction"
    /\ y_arg' = [head |-> head_id, tx |-> tx, response |-> response]
    /\ IF head_id \notin DOMAIN y_heads
       THEN /\ y_heads' = y_heads
            /\ y_ret' = [NoHydraRet EXCEPT !.kind = "raise", !.exc = "KeyError"]
       ELSE LET log == y_heads[head_id].transactions
                real == y_session /\ response = "200"
                tx_id == IF real /\ node_tx # "" THEN node_tx
                         ELSE "tx-" \o ZeroPad(Len(log) + 1, 6)
                tx_record == [tx_id |-> tx_id, transaction |-> tx,
                              status |-> "confirmed", simulated |-> ~real]
            IN /\ y_heads' = [y_heads EXCEPT ![head_id].transactions =
                                                  Append(log, tx_record)]
               /\ y_ret' = [NoHydraRet EXCEPT !.kind = "return",
                                              !.value = tx_id,
                                              !.simulated = ~real]
    /\ UNCHANGED <<y_session, core_vars, o_vars, s_vars>>

\* submit_transaction(head_id, tx)
SubmitTransaction ==
    \E head_id \in DOMAIN y_heads \cup {UnknownHead}, tx \in HydraTxs,
       response \in Responses, node_tx \in NodeTxIds :
        /\ head_id \in DOMAIN y_heads =>
              Len(y_heads[head_id].transactions) < MaxHydraTx
        /\ SubmitTransactionBody(head_id, tx, response, node_tx)

\* lines 170-213: the settlement is returned, heads is left as it is
CloseHead ==
    \E head_id \in DOMAIN y_heads \cup {UnknownHead}, response \in Responses :
        /\ y_op' = "close_head"
        /\ y_arg' = [NoHydraArg EXCEPT !.head = head_id, !.response = response]
        /\ y_ret' = IF head_id \in DOMAIN y_heads
                    THEN [kind      |-> "return",
                          exc       |-> "",
                          value     |-> "cardano-tx-" \o head_id,
                          count     |-> Len(y_heads[head_id].transactions),
                          simulated |-> ~(y_session /\ response = "200")]
                    ELSE [NoHydraRet EXCEPT !.kind = "raise",
                                            !.exc = "KeyError"]
        /\ UNCHANGED <<y_session, y_heads, core_vars, o_vars, s_vars>>

\* lines 42-46
Cleanup ==
    /\ y_session' = FALSE
    /\ y_op' = "cleanup"
    /\ y_arg' = NoHydraArg
    /\ y_ret' = [NoHydraRet EXCEPT !.kind = "return"]
    /\ UNCHANGED <<y_heads, core_vars, o_vars, s_vars>>

(***************************************************************************)
(* OperationsAgent: Hydra heads and metrics                                *)
(* hydra_heads is a function from the registered head ids to their         *)
(* records (created_at, a clock reading, is left out); of metrics the      *)
(* entry active_heads is kept.                                             *)
(***************************************************************************)
MaxOpsHeads == 3

OpsParticipants == {<<>>, <<"addr1">>}

\* f"hydra-head-{n:03d}"
OpsHeadId(n) == "hydra-head-" \o ZeroPad(n, 3)

OpsHeadIds == {OpsHeadId(n) : n \in 1..MaxOpsHeads}

\* lines 160-165 and 333-338
OpsHead(participants) ==
    [status |-> "active", transactions |-> 0, participants |-> participants]

NoOpsArg == [action |-> "", head_id |-> "", participants |-> <<>>,
             num_heads |-> 0]
NoOpsRet == [action |-> "", head_id |-> "", status |-> "", count |-> 0]

\* lines 25-40
o_Init ==
    /\ o_heads = [h \in {} |-> OpsHead(<<>>)]
    /\ o_metrics = [active_heads |-> 0]
    /\ o_op = ""
    /\ o_arg = NoOpsArg
    /\ o_ret = NoOpsRet

\* line 331: f"hydra-head-{len(self.hydra_heads)+1:03d}"
NextHeadId(heads) == OpsHeadId(Cardinality(DOMAIN heads) + 1)

\* manage_hydra_heads with action "create" (lines 306-312, 329-343)
ManageCreate ==
    \E participants \in OpsParticipants :
        /\ Cardinality(DOMAIN o_heads) < MaxOpsHeads
        /\ LET head_id == NextHeadId(o_heads) IN
           /\ o_heads' = Put(o_heads, head_id, OpsHead(participants))
           /\ o_ret' = [NoOpsRet EXCEPT !.action = "created",
                                        !.head_id = head_id,
                                        !.status = "active"]
        /\ o_metrics' = [o_metrics EXCEPT
                           !.active_heads = Cardinality(DOMAIN o_heads')]
        /\ o_op' = "create"
        /\ o_arg' = [NoOpsArg EXCEPT !.action = "create",
                                     !.participants = participants]
        /\ UNCHANGED <<core_vars, y_vars, s_vars>>

\* manage_hydra_heads with action "close" (lines 313-320, 345-350)
ManageClose ==
    \E head_id \in OpsHeadIds :
        /\ IF head_id \in DOMAIN o_heads
           THEN /\ o_heads' = [h \in DOMAIN o_heads \ {head_id} |-> o_heads[h]]
                /\ o_metrics' = [o_metrics EXCEPT
                                   !.active_heads = Cardinality(DOMAIN o_heads')]
           ELSE UNCHANGED <<o_heads, o_metrics>>
        /\ o_op' = "close"
        /\ o_arg' = [NoOpsArg EXCEPT !.action = "close", !.head_id = head_id]
        /\ o_ret' = [NoOpsRet EXCEPT !.action = "closed", !.head_id = head_id,
                                     !.status = "closed"]
        /\ UNCHANGED <<core_vars, y_vars, s_vars>>

\* manage_hydra_heads with any other action (lines 321-327)
ManageList ==
    /\ o_op' = "list"
    /\ o_arg' = [NoOpsArg EXCEPT !.action = "list"]
    /\ o_ret' = [NoOpsRet EXCEPT !.action = "list",
                                 !.count = Cardinality(DOMAIN o_heads)]
    /\ UNCHANGED <<o_heads, o_metrics, core_vars, y_vars, s_vars>>

\* deploy_infrastructure (lines 113-171): heads 1 .. num_heads are written
DeployInfrastructure ==
    \E num_heads \in 0..MaxOpsHeads :
        /\ o_heads' = [h \in DOMAIN o_heads \cup
                               {OpsHeadId(i) : i \in Range(num_heads)} |->
                         IF h \in {OpsHeadId(i) : i \in Range(num_heads)}
                         THEN OpsHead(<<>>) ELSE o_heads[h]]
        /\ o_metrics' = [o_metrics EXCEPT
                           !.active_heads = Cardinality(DOMAIN o_heads')]
        /\ o_op' = "deploy"
        /\ o_arg' = [NoOpsArg EXCEPT !.num_heads = num_heads]
        /\ o_ret' = [NoOpsRet EXCEPT !.status = "operational",
                                     !.count = num_heads]
        /\ UNCHANGED <<core_vars, y_vars, s_vars>>

\* check_system_health (lines 173-211): _collect_metrics rewrites active_heads
CheckSystemHealth ==
    /\ o_metrics' = [o_metrics EXCEPT
                       !.active_heads = Cardinality(DOMAIN o_heads)]
    /\ o_op' = "monitor"
    /\ o_arg' = NoOpsArg
    /\ o_ret' = [NoOpsRet EXCEPT !.count = Cardinality(DOMAIN o_heads)]
    /\ UNCHANGED <<o_heads, core_vars, y_vars, s_vars>>

(***************************************************************************)
(* One run over the leaves of a task                                       *)
(*   DSSTARFramework.execute: Planner.decompose, Solver.solve, Tester.test,*)
(*                            Analyzer.analyze, Refiner.refine             *)
(*   Refiner.refine           called on a list of solutions                *)
(*   MAKEROrchestrator.execute: the loop over the components               *)
(* A solution is [status, refined]; a coroutine is suspended inside        *)
(* _solve_step, _test_solution, _refine_solution or _execute_component     *)
(* while s_busy holds.                                                     *)
(***************************************************************************)
MaxSolutions == 4
MaxLeafComponents == 3
PlannerSteps == 5

Solution(status) == [status |-> status, refined |-> FALSE]

\* the lists of solutions handed to Refiner.refine
SolutionLists ==
    UNION {[1..k -> {Solution("success"), Solution("failed")}] :
             k \in 0..MaxSolutions}

NoLeafRet == [status |-> "", refinement_count |-> 0, count |-> 0]

s_Idle ==
    /\ s_pc = "idle"
    /\ s_op = ""
    /\ s_n = 0
    /\ s_solutions = <<>>
    /\ s_i = 0
    /\ s_busy = FALSE
    /\ s_passed = 0
    /\ s_failed = 0
    /\ s_out = <<>>
    /\ s_ret = NoLeafRet

\* the call of one of the three entry points
s_Init ==
    /\ s_i = 1
    /\ s_busy = FALSE
    /\ s_passed = 0
    /\ s_failed = 0
    /\ s_out = <<>>
    /\ s_ret = NoLeafRet
    /\ \/ /\ s_op = "execute"
          /\ s_pc = "solve"
          /\ s_n = PlannerSteps
          /\ s_solutions = <<>>
       \/ /\ s_op = "refine"
          /\ s_pc = "refine"
          /\ s_solutions \in SolutionLists
          /\ s_n = Len(s_solutions)
       \/ /\ s_op = "maker_execute"
          /\ s_pc = "components"
          /\ s_n \in 0..MaxLeafComponents
          /\ s_solutions = <<>>

\* ds_star.py line 245 retrying every solution
NeedsRefinementAlways(solution) == TRUE

\* ds_star.py line 245: solution.get("status") != "success"
NeedsRefinement(solution) == solution.status # "success"

\* ds_star.py line 180
TestSolution(solution) == solution.status = "success"

\* ds_star.py lines 123-125: the step is handed to _solve_step
SolveCall ==
    /\ s_pc = "solve"
    /\ s_i <= s_n
    /\ ~s_busy
    /\ s_busy' = TRUE
    /\ UNCHANGED <<s_pc, s_op, s_n, s_solutions, s_i, s_passed, s_failed,
                   s_out, s_ret, core_vars, y_vars, o_vars>>

\* ds_star.py lines 129-140 and 125: _solve_step returns status "success"
SolveResult ==
    /\ s_pc = "solve"
    /\ s_busy
    /\ s_busy' = FALSE
    /\ s_solutions' = Append(s_solutions, Solution("success"))
    /\ s_i' = s_i + 1
    /\ UNCHANGED <<s_pc, s_op, s_n, s_passed, s_failed, s_out, s_ret,
                   core_vars, y_vars, o_vars>>

\* ds_star.py lines 127 and 47-51: solve returns, test is called
SolveReturn ==
    /\ s_pc = "solve"
    /\ s_i > s_n
    /\ s_pc' = "test"
    /\ s_i' = 1
    /\ UNCHANGED <<s_op, s_n, s_solutions, s_busy, s_passed, s_failed, s_out,
                   s_ret, core_vars, y_vars, o_vars>>

\* ds_star.py lines 161-162: the solution is handed to _test_solution
TestCall ==
    /\ s_pc = "test"
    /\ s_i <= Len(s_solutions)
    /\ ~s_busy
    /\ s_busy' = TRUE
    /\ UNCHANGED <<s_pc, s_op, s_n, s_solutions, s_i, s_passed, s_failed,
                   s_out, s_ret, core_vars, y_vars, o_vars>>

\* ds_star.py lines 162-165
TestResult ==
    /\ s_pc = "test"
    /\ s_busy
    /\ s_busy' = FALSE
    /\ IF TestSolution(s_solutions[s_i])
       THEN s_passed' = s_passed + 1 /\ s_failed' = s_failed
       ELSE s_failed' = s_failed + 1 /\ s_passed' = s_passed
    /\ s_i' = s_i + 1
    /\ UNCHANGED <<s_pc, s_op, s_n, s_solutions, s_out, s_ret,
                   core_vars, y_vars, o_vars>>

\* ds_star.py lines 167-175 and 55: test returns, analyze is called
TestReturn ==
    /\ s_pc = "test"
    /\ s_i > Len(s_solutions)
    /\ ~s_busy
    /\ s_pc' = "analyze"
    /\ UNCHANGED <<s_op, s_n, s_solutions, s_i, s_busy, s_passed, s_failed,
                   s_out, s_ret, core_vars, y_vars, o_vars>>

\* ds_star.py line 167: pass_rate = passed / len(solutions), 0 without
\* solutions, compared with 0.9 (line 59)
PassRateBelow(passed, total) ==
    IF total = 0 THEN TRUE ELSE 10 * passed < 9 * total

\* ds_star.py lines 55-71: analyze returns; refine is called when the pass
\* rate is below 0.9, else execute returns status "completed"
Analyze ==
    /\ s_pc = "analyze"
    /\ IF PassRateBelow(s_passed, Len(s_solutions))
       THEN /\ s_pc' = "refine"
            /\ s_i' = 1
            /\ s_ret' = s_ret
       ELSE /\ s_pc' = "done"
            /\ s_i' = s_i
            /\ s_ret' = [NoLeafRet EXCEPT !.status = "completed",
                                          !.count = Len(s_solutions)]
    /\ UNCHANGED <<s_op, s_n, s_solutions, s_busy, s_passed, s_failed, s_out,
                   core_vars, y_vars, o_vars>>

\* ds_star.py lines 244-250: a solution that needs no refinement is appended
\* as it is, another one is handed to _refine_solution
RefineCall ==
    /\ s_pc = "refine"
    /\ s_i <= Len(s_solutions)
    /\ ~s_busy
    /\ IF NeedsRefinement(s_solutions[s_i])
       THEN /\ s_busy' = TRUE
            /\ UNCHANGED <<s_out, s_i>>
       ELSE /\ s_busy' = FALSE
            /\ s_out' = Append(s_out, s_solutions[s_i])
            /\ s_i' = s_i + 1
    /\ UNCHANGED <<s_pc, s_op, s_n, s_solutions, s_passed, s_failed, s_ret,
                   core_vars, y_vars, o_vars>>

\* ds_star.py lines 258-267 and 248: the retried solution comes back with
\* status "success" and refined True
RefineResult ==
    /\ s_pc = "refine"
    /\ s_busy
    /\ s_busy' = FALSE
    /\ s_out' = Append(s_out, [s_solutions[s_i] EXCEPT !.status = "success",
                                                       !.refined = TRUE])
    /\ s_i' = s_i + 1
    /\ UNCHANGED <<s_pc, s_op, s_n, s_solutions, s_passed, s_failed, s_ret,
                   core_vars, y_vars, o_vars>>

\* ds_star.py lines 252-256 (and 62)
RefineReturn ==
    /\ s_pc = "refine"
    /\ s_i > Len(s_solutions)
    /\ ~s_busy
    /\ s_pc' = "done"
    /\ s_ret' = [status |-> "refined",
                 refinement_count |->
                     Cardinality({p \in 1..Len(s_solutions) :
                                    s_solutions[p].status # "success"}),
                 count |-> Len(s_out)]
    /\ UNCHANGED <<s_op, s_n, s_solutions, s_i, s_busy, s_passed, s_failed,
                   s_out, core_vars, y_vars, o_vars>>

\* maker_orchestrator.py lines 122-123: the component is handed to
\* _execute_component
ExecuteComponentCall ==
    /\ s_pc = "components"
    /\ s_i <= s_n
    /\ ~s_busy
    /\ s_busy' = TRUE
    /\ UNCHANGED <<s_pc, s_op, s_n, s_solutions, s_i, s_passed, s_failed,
                   s_out, s_ret, core_vars, y_vars, o_vars>>

\* maker_orchestrator.py lines 136-146 and 124: the result is appended
ExecuteComponentResult ==
    /\ s_pc = "components"
    /\ s_busy
    /\ s_busy' = FALSE
    /\ s_out' = Append(s_out, [status |-> "completed", refined |-> FALSE])
    /\ s_i' = s_i + 1
    /\ UNCHANGED <<s_pc, s_op, s_n, s_solutions, s_passed, s_failed, s_ret,
                   core_vars, y_vars, o_vars>>

\* maker_orchestrator.py lines 127-134
ExecuteReturn ==
    /\ s_pc = "components"
    /\ s_i > s_n
    /\ ~s_busy
    /\ s_pc' = "done"
    /\ s_ret' = [NoLeafRet EXCEPT !.status = "completed", !.count = Len(s_out)]
    /\ UNCHANGED <<s_op, s_n, s_solutions, s_i, s_busy, s_passed, s_failed,
                   s_out, core_vars, y_vars, o_vars>>

(***************************************************************************)
(* Specifications                                                          *)
(***************************************************************************)
ext_Init == y_Init /\ o_Init /\ s_Idle
core_Idle == d_Idle /\ q_Init /\ h_Idle /\ v_Idle /\ m_Init

InitDecompose == d_Init /\ q_Init /\ h_Idle /\ v_Idle /\ m_Init /\ ext_Init
NextDecompose == Decompose
SpecDecompose == InitDecompose /\ [][NextDecompose]_vars

InitHash == d_Idle /\ q_Init /\ h_Init /\ v_Idle /\ m_Init /\ ext_Init
NextHash == HashBoth
SpecHash == InitHash /\ [][NextHash]_vars

InitQuality == d_Idle /\ q_Init /\ h_Idle /\ v_Idle /\ m_Init /\ ext_Init
NextQuality ==
    \/ Verify
    \/ ExecuteTask
    \/ ExecuteTaskBadContext
    \/ MultiAgentVerification
    \/ VerifyWithAgent
    \/ GatherReturn
    \/ GatherRaise
    \/ VerifyVote
    \/ VerifyWithVoting
SpecQuality == InitQuality /\ [][NextQuality]_vars

InitVoting == d_Idle /\ q_Init /\ h_Idle /\ v_Init /\ m_Init /\ ext_Init
NextVoting ==
    \/ VerifyWithVotingCall
    \/ ApplyVotingCall
    \/ CalculateQualityScoreCall
SpecVoting == InitVoting /\ [][NextVoting]_vars

InitMaker == d_Idle /\ q_Init /\ h_Idle /\ v_Idle /\ m_Init /\ ext_Init
NextMaker ==
    \/ UpdateReputation
    \/ Vote
    \/ CalculateConsensus
    \/ MakerDecompose
    \/ Execute
SpecMaker == InitMaker /\ [][NextMaker]_vars

InitHydra == core_Idle /\ y_Init /\ o_Init /\ s_Idle
NextHydra ==
    \/ CreateHead
    \/ OpenHead
    \/ SubmitTransaction
    \/ CloseHead
    \/ Cleanup
SpecHydra == InitHydra /\ [][NextHydra]_vars

InitOps == core_Idle /\ y_Init /\ o_Init /\ s_Idle
NextOps ==
    \/ ManageCreate
    \/ ManageClose
    \/ ManageList
    \/ DeployInfrastructure
    \/ CheckSystemHealth
SpecOps == InitOps /\ [][NextOps]_vars

InitLeaf == core_Idle /\ y_Init /\ o_Init /\ s_Init
NextLeaf ==
    \/ SolveCall
    \/ SolveResult
    \/ SolveReturn
    \/ TestCall
    \/ TestResult
    \/ TestReturn
    \/ Analyze
    \/ RefineCall
    \/ RefineResult
    \/ RefineReturn
    \/ ExecuteComponentCall
    \/ ExecuteComponentResult
    \/ ExecuteReturn
SpecLeaf == InitLeaf /\ [][NextLeaf]_vars

\* the event loop resumes a coroutine whose awaited sleep has elapsed
SpecLeafFair == SpecLeaf /\ WF_vars(NextLeaf)

(***************************************************************************)
(* Properties of decompose (SpecDecompose)                                 *)
(***************************************************************************)
Returned == d_pc = "returned"
Comps == d_ret.components

\* number of step nodes of a tree
StepLeaves(comps) ==
    SumSeq([c \in 1..Len(comps) |->
              SumSeq([j \in 1..Len(comps[c].subtasks) |->
                        Len(comps[c].subtasks[j].steps)])])

\* number of nodes of a tree that have no children
LeafCount(comps) ==
    SumSeq([c \in 1..Len(comps) |->
              IF comps[c].subtasks = <<>> THEN 1
              ELSE SumSeq([j \in 1..Len(comps[c].subtasks) |->
                             IF comps[c].subtasks[j].steps = <<>> THEN 1
                             ELSE Len(comps[c].subtasks[j].steps)])])

\* depth of the deepest node of a tree (components are at depth 1)
Height(comps) ==
    IF comps = <<>> THEN 0
    ELSE IF \A c \in 1..Len(comps) : comps[c].subtasks = <<>> THEN 1
    ELSE IF \A c \in 1..Len(comps) : \A j \in 1..Len(comps[c].subtasks) :
              comps[c].subtasks[j].steps = <<>> THEN 2
    ELSE 3

\* C3: for target_subtask_count >= 1 and max_depth >= 1 the returned tree has
\* at least one component, and their number is min(target div 10, 10) raised
\* to 1 when that is 0.
C3_AtLeastOneComponent ==
    (Returned /\ d_level >= 1 /\ d_depth >= 1) =>
        /\ Len(Comps) >= 1
        /\ Len(Comps) = Max(1, Min(d_level \div 10, 10))

\* C4: decompose called with target_subtask_count < 1 or max_depth < 1 fails
\* and returns no tree: never a result with status "decomposed".
C4_InvalidConfigFails ==
    (Returned /\ (d_level < 1 \/ d_depth < 1)) => d_ret.status # "decomposed"

\* C5: the returned tree has at most 10 components, every component at most
\* 20 subtasks and every subtask at most 10 steps.
C5_WidthBounded ==
    Returned =>
        /\ Len(Comps) <= 10
        /\ \A c \in 1..Len(Comps) :
              /\ Len(Comps[c].subtasks) <= 20
              /\ \A j \in 1..Len(Comps[c].subtasks) :
                    Len(Comps[c].subtasks[j].steps) <= 10

\* a returned tree in which all three caps bind
C5_Witness ==
    /\ Returned
    /\ d_level > 2000
    /\ Len(Comps) = 10
    /\ Len(Comps[10].subtasks) = 20
    /\ Len(Comps[10].subtasks[20].steps) = 10

\* C6: for max_depth = 3 and target >= 1 the number of step leaves never
\* exceeds the target; target 1000 gives exactly 10 components, 20 subtasks
\* per component and at most 5 steps per subtask.
C6_LeavesWithinTarget ==
    (Returned /\ d_depth = 3 /\ d_level >= 1) =>
        /\ StepLeaves(Comps) <= d_level
        /\ d_level = 1000 =>
              /\ Len(Comps) = 10
              /\ \A c \in 1..Len(Comps) :
                    /\ Len(Comps[c].subtasks) = 20
                    /\ \A j \in 1..Len(Comps[c].subtasks) :
                          Len(Comps[c].subtasks[j].steps) <= 5

\* decompose(task, 1000, 3) has returned its 1000 step leaves
C6_Witness ==
    /\ Returned
    /\ d_depth = 3
    /\ d_level = 1000
    /\ StepLeaves(Comps) = 1000

\* C7: total_steps equals the number of leaf nodes of the returned tree for
\* every target >= 1 and max_depth in {1, 2, 3}.
C7_TotalStepsIsLeafCount ==
    (Returned /\ d_level >= 1 /\ d_depth \in {1, 2, 3}) =>
        d_ret.total_steps = LeafCount(Comps)

\* C8: for max_depth >= 1 no node is deeper than max_depth: with max_depth 1
\* no component has subtasks, with max_depth 2 no subtask has steps.
C8_DepthBounded ==
    (Returned /\ d_depth >= 1) =>
        /\ Height(Comps) <= d_depth
        /\ d_depth = 1 => \A c \in 1..Len(Comps) : Comps[c].subtasks = <<>>
        /\ d_depth = 2 => \A c \in 1..Len(Comps) :
                             \A j \in 1..Len(Comps[c].subtasks) :
                                Comps[c].subtasks[j].steps = <<>>

\* trees cut at depth 1 and trees cut at depth 2 are returned
C8_Witness ==
    /\ Returned
    /\ d_depth = 2
    /\ Len(Comps) >= 1
    /\ Len(Comps[1].subtasks) >= 1
    /\ Comps[1].subtasks[1].steps = <<>>

(***************************************************************************)
(* Properties of hash_result (SpecHash)                                    *)
(***************************************************************************)
KeySet(items) == {items[p][1] : p \in 1..Len(items)}
ItemValue(items, k) == items[CHOOSE p \in 1..Len(items) : items[p][1] = k][2]

\* same keys and same values at every level, whatever the insertion order
RECURSIVE StructurallyEqual(_, _)
StructurallyEqual(a, b) ==
    /\ a.t = b.t
    /\ a.n = b.n
    /\ a.s = b.s
    /\ KeySet(a.sub) = KeySet(b.sub)
    /\ \A k \in KeySet(a.sub) :
          StructurallyEqual(ItemValue(a.sub, k), ItemValue(b.sub, k))

IsNumber(v) == v.t \in {"int", "float"}

\* structural equality with numbers normalized: 1 and 1.0 are one value
RECURSIVE CanonicallyEqual(_, _)
CanonicallyEqual(a, b) ==
    IF IsNumber(a) /\ IsNumber(b) THEN a.n = b.n
    ELSE /\ a.t = b.t
         /\ a.s = b.s
         /\ KeySet(a.sub) = KeySet(b.sub)
         /\ \A k \in KeySet(a.sub) :
               CanonicallyEqual(ItemValue(a.sub, k), ItemValue(b.sub, k))

\* C9: two results that are structurally equal get the same fingerprint,
\* whatever the insertion order of their keys at any nesting level.
C9_KeyOrderIndependent ==
    (h_pc = "returned" /\ StructurallyEqual(h_a, h_b)) => h_fa = h_fb

\* two equal results whose keys were inserted in different orders, at the top
\* level and inside a nested dict, have been hashed
C9_Witness ==
    /\ h_pc = "returned"
    /\ StructurallyEqual(h_a, h_b)
    /\ Len(h_a.sub) = 2
    /\ h_a.sub[1][1] # h_b.sub[1][1]
    /\ \E p \in 1..2, q \in 1..2 :
          /\ h_a.sub[p][1] = h_b.sub[q][1]
          /\ Len(h_a.sub[p][2].sub) = 2
          /\ h_a.sub[p][2].sub[1][1] # h_b.sub[q][2].sub[1][1]

\* C10: the fingerprints of two results are equal if and only if the results
\* are structurally equal under the canonicalization rule (sorted keys,
\* normalized numbers): 1 and 1.0 get the same fingerprint.
C10_FingerprintIffCanonicallyEqual ==
    h_pc = "returned" => ((h_fa = h_fb) <=> CanonicallyEqual(h_a, h_b))

(***************************************************************************)
(* Properties of the verification round (SpecQuality)                      *)
(***************************************************************************)
\* C1: apply_voting on an empty list of judgments, as reached through
\* verify_with_voting(subtask, []), returns consensus_strength 0.0 and does
\* not raise.
C1_EmptyRoundZeroStrength ==
    (q_pc = "done" /\ q_op = "verify_with_voting" /\ q_inputs = <<>>) =>
        /\ q_ret.kind = "return"
        /\ q_ret.voting.consensus_strength.num = 0

\* C2: in a round of n verifiers a verifier that fails is recorded as one
\* is_valid = false judgment; the round never aborts and the number of
\* judgments handed to voting equals n.
C2_FailedVerifierRecorded ==
    (q_pc = "done" /\ q_op \in {"verify", "multi_agent_verification"}) =>
        /\ q_ret.kind = "return"
        /\ q_ret.count = q_n
        /\ Len(q_judgments) = q_n
        /\ \A i \in 1..Len(q_tasks) :
              q_tasks[i].st = "raised" => ~q_judgments[i].is_valid

(***************************************************************************)
(* Properties of apply_voting and the quality score (SpecVoting)           *)
(***************************************************************************)
\* a round has been voted on and the call returned
Voted ==
    /\ v_pc = "returned"
    /\ v_op \in {"verify_with_voting", "apply_voting"}
    /\ v_ret.kind = "return"

\* the fingerprints of the judgments of the round, in input order
RoundHashes == [i \in 1..Len(v_inputs) |-> hash_result(v_inputs[i]).hash]

\* number of judgments of the round that carry fingerprint h
Agreeing(h) == Cardinality({i \in 1..Len(v_inputs) : RoundHashes[i] = h})

Groups == v_ret.voting.hash_groups

\* C11: the hash groups partition the judgments: every judgment is counted
\* in exactly one group, the group sizes sum to total_verifiers and no group
\* is empty.
C11_GroupsPartition ==
    Voted =>
        /\ v_ret.voting.total_verifiers = Len(v_inputs)
        /\ SumSeq([p \in 1..Len(Groups) |-> Groups[p][2]]) = Len(v_inputs)
        /\ \A p \in 1..Len(Groups) : Groups[p][2] >= 1
        /\ \A i \in 1..Len(v_inputs) :
              Cardinality({p \in 1..Len(Groups) : Groups[p][1] = RoundHashes[i]}) = 1

\* a round of six judgments in three groups of different sizes
C11_Witness ==
    /\ Voted
    /\ Len(v_inputs) = 6
    /\ Len(Groups) = 3
    /\ Groups[1][2] = 1
    /\ Groups[2][2] = 3

\* C12: consensus_strength = majority_count / total_verifiers with
\* majority_count the size of the largest hash group; 2 of 3 agreeing gives
\* 2/3, majority_count 2 and all_agree false.
C12_StrengthIsMajorityShare ==
    Voted =>
        /\ v_ret.voting.consensus_strength =
              Frac(v_ret.voting.majority_count, Len(v_inputs))
        /\ \A i \in 1..Len(v_inputs) :
              Agreeing(RoundHashes[i]) <= v_ret.voting.majority_count
        /\ \E i \in 1..Len(v_inputs) :
              Agreeing(RoundHashes[i]) = v_ret.voting.majority_count
        /\ (Len(v_inputs) = 3 /\ \E i \in 1..3 : Agreeing(RoundHashes[i]) = 2) =>
              /\ FracEq(v_ret.voting.consensus_strength, Frac(2, 3))
              /\ v_ret.voting.majority_count = 2
              /\ ~v_ret.voting.all_agree

\* 2 of 3 judgments agree, the dissenting one comes first
C12_Witness ==
    /\ Voted
    /\ Len(v_inputs) = 3
    /\ RoundHashes[1] # RoundHashes[2]
    /\ RoundHashes[2] = RoundHashes[3]
    /\ v_ret.voting.majority_count = 2

\* C13: all_agree is true exactly when all judgments carry one and the same
\* hash, and then consensus_strength is 1.0 and majority_count the number of
\* judgments.
C13_AllAgreeIffOneHash ==
    Voted =>
        /\ v_ret.voting.all_agree <=>
              \A i, j \in 1..Len(v_inputs) : RoundHashes[i] = RoundHashes[j]
        /\ v_ret.voting.all_agree =>
              /\ FracEq(v_ret.voting.consensus_strength, Frac(1, 1))
              /\ v_ret.voting.majority_count = Len(v_inputs)

\* the default round: 3 of 3 judgments agree
C13_Witness ==
    /\ Voted
    /\ Len(v_inputs) = 3
    /\ v_ret.voting.all_agree
    /\ v_ret.voting.majority_count = 3

\* C14: when several hash groups tie for the largest size, majority_hash is
\* the tied hash that occurs first in the input sequence.
C14_TieGoesToFirst ==
    Voted =>
        \A i \in 1..Len(v_inputs) :
            Agreeing(RoundHashes[i]) = v_ret.voting.majority_count =>
                \E j \in 1..i : RoundHashes[j] = v_ret.voting.majority_hash

\* a 2-2 tie in which the hash seen first is not the one seen last
C14_Witness ==
    /\ Voted
    /\ Len(v_inputs) = 4
    /\ v_ret.voting.majority_count = 2
    /\ Len(Groups) = 2
    /\ RoundHashes[4] # v_ret.voting.majority_hash
    /\ RoundHashes[1] = v_ret.voting.majority_hash

\* C15: verified is true exactly when the score is >= 0.7: a round whose
\* consensus_strength is exactly 0.7 is verified, a round with a smaller
\* non-unanimous strength is not.
C15_ThresholdInclusive ==
    Voted =>
        /\ v_ret.verified <=>
              10 * v_ret.confidence.num >= 7 * v_ret.confidence.den
        /\ FracEq(v_ret.voting.consensus_strength, Frac(7, 10)) => v_ret.verified
        /\ (/\ ~v_ret.voting.all_agree
            /\ 10 * v_ret.voting.consensus_strength.num
                  < 7 * v_ret.voting.consensus_strength.den) => ~v_ret.verified

\* 7 of 10 judgments agree and the round is verified
C15_Witness ==
    /\ Voted
    /\ v_op = "apply_voting"
    /\ Len(v_inputs) = 10
    /\ v_ret.voting.majority_count = 7
    /\ v_ret.verified

\* C16: _calculate_quality_score returns min(1.0, consensus_strength + bonus)
\* with bonus 0.1 exactly when all_agree, so the score lies in [0, 1].
C16_ScoreIsCappedSum ==
    (v_pc = "returned" /\ v_op = "calculate_quality_score") =>
        LET cs == v_vote.consensus_strength
            sum_num == 10 * cs.num + (IF v_vote.all_agree THEN cs.den ELSE 0)
            sum_den == 10 * cs.den
            score == v_ret.quality_score
        IN /\ IF sum_num >= sum_den
              THEN score.num = score.den
              ELSE score.num * sum_den = sum_num * score.den
           /\ score.den > 0
           /\ 0 <= score.num
           /\ score.num <= score.den

\* the bonus is added below the cap, and cut off at the cap
C16_Witness ==
    /\ v_pc = "returned"
    /\ v_op = "calculate_quality_score"
    /\ v_vote.all_agree
    /\ v_vote.consensus_strength = Frac(1, 2)
    /\ FracEq(v_ret.quality_score, Frac(6, 10))

(***************************************************************************)
(* Properties of the verification round, continued (SpecQuality)           *)
(***************************************************************************)
\* C17: in verify, voting starts only after every requested verifier
\* judgment has completed, whatever the order in which the verifiers finish.
C17_VoteAfterAllJudgments ==
    (q_op = "verify" /\ (q_pc = "voting" \/ (q_pc = "done" /\ q_ret.kind = "return"))) =>
        /\ Len(q_tasks) = q_n
        /\ \A i \in 1..q_n : q_tasks[i].st = "done"
        /\ Len(q_judgments) = q_n
        /\ \A i \in 1..q_n : q_judgments[i].hash = q_tasks[i].hash
        /\ q_pc = "done" => q_ret.voting.total_verifiers = q_n

\* verify has voted on the three judgments of its round
C17_Witness ==
    /\ q_op = "verify"
    /\ q_pc = "done"
    /\ q_ret.kind = "return"
    /\ q_n = 3
    /\ q_ret.voting.total_verifiers = 3

(***************************************************************************)
(* Properties of the reputation ledger and the weighted vote (SpecMaker)   *)
(***************************************************************************)
\* C18: after any sequence of update_reputation calls with arbitrary integer
\* scores every stored score lies in [0, 100]; an out-of-range update is
\* clamped to the nearest bound and does not fail.
C18_LedgerWithinBounds ==
    /\ \A a \in DOMAIN m_ledger : 0 <= m_ledger[a] /\ m_ledger[a] <= 100
    /\ m_op = "update_reputation" =>
          /\ m_ret.kind = "return"
          /\ m_arg.agent \in DOMAIN m_ledger
          /\ m_arg.score < 0 => m_ledger[m_arg.agent] = 0
          /\ m_arg.score > 100 => m_ledger[m_arg.agent] = 100
          /\ (0 <= m_arg.score /\ m_arg.score <= 100) =>
                m_ledger[m_arg.agent] = m_arg.score

\* a negative update has just been clamped to 0 next to an entry that an
\* update above 100 left at 100
C18_Witness ==
    /\ m_op = "update_reputation"
    /\ m_arg.score < 0
    /\ m_ledger[m_arg.agent] = 0
    /\ \E a \in DOMAIN m_ledger : m_ledger[a] = 100

\* C19: decompose, execute and vote leave the ledger unchanged, and an
\* update for one voter id changes no entry of another voter id.
C19_LedgerFrame ==
    [][/\ m_op' \in {"decompose", "execute", "vote", "calculate_consensus"} =>
             m_ledger' = m_ledger
       /\ m_op' = "update_reputation" =>
             /\ DOMAIN m_ledger' = DOMAIN m_ledger \cup {m_arg'.agent}
             /\ \A a \in DOMAIN m_ledger :
                   a # m_arg'.agent => m_ledger'[a] = m_ledger[a]]_vars

\* vote has run for three voters while the ledger holds one entry only
C19_Witness ==
    /\ m_op = "vote"
    /\ m_ret.total_votes = 3
    /\ Cardinality(DOMAIN m_ledger) = 1

\* the two voters of a consensus call hold scores 100 and 0 and voted
\* opposite outcomes; hi is the position of the voter with score 100
OppositeVotes(hi, lo) ==
    /\ m_op = "calculate_consensus"
    /\ Len(m_ret.votes) = 2
    /\ m_ret.votes[hi].reputation = 100
    /\ m_ret.votes[lo].reputation = 0
    /\ m_ret.votes[hi].vote # m_ret.votes[lo].vote

\* C20: when a voter with score 100 and a voter with score 0 cast opposite
\* votes, the weighted share of the outcome of the score-100 voter is 1.0:
\* the score-0 voter contributes no weight to either side.
C20_ZeroScoreVoterHasNoWeight ==
    \A hi, lo \in 1..2 :
        OppositeVotes(hi, lo) =>
            /\ m_ret.votes[lo].weight.num = 0
            /\ IF m_ret.votes[hi].vote = "approve"
               THEN /\ FracEq(m_ret.strength, Frac(1, 1))
                    /\ m_ret.result = "approved"
               ELSE /\ FracEq(m_ret.strength, Frac(0, 1))
                    /\ m_ret.result = "rejected"

\* the score-100 voter approved, the score-0 voter rejected
C20_Witness ==
    /\ OppositeVotes(1, 2)
    /\ m_ret.votes[1].vote = "approve"
    /\ m_ret.votes[2].vote = "reject"

\* the reputation the ledger holds for the voter at position p of a round, 50
\* for a voter never written
RepOf(p) ==
    IF VoterName(p - 1) \in DOMAIN m_ledger THEN m_ledger[VoterName(p - 1)]
    ELSE 50

RECURSIVE RepSum(_)
RepSum(S) ==
    IF S = {} THEN 0
    ELSE LET p == CHOOSE x \in S : TRUE IN RepOf(p) + RepSum(S \ {p})

\* C21: on a non-empty list of votes the strength is the weight of the
\* approving votes over the weight of all votes (weight = reputation / 100),
\* it lies in [0, 1], the result is "approved" exactly when the strength is at
\* least 0.66 and "rejected" otherwise, and when every weight is 0 the
\* strength is 0 and nothing is divided by zero.
C21_WeightedShare ==
    (m_op = "calculate_consensus" /\ m_arg.num_voters >= 1) =>
        LET voters == 1..m_arg.num_voters
            total == RepSum(voters)
            approve == RepSum({p \in voters : m_arg.outcomes[p] = "approve"})
            s == m_ret.strength
        IN /\ m_ret.kind = "return"
           /\ s.den > 0
           /\ IF total > 0 THEN s.num * total = approve * s.den ELSE s.num = 0
           /\ 0 <= s.num /\ s.num <= s.den
           /\ m_ret.result = IF 100 * s.num >= 66 * s.den THEN "approved"
                             ELSE "rejected"

\* a rejecting vote is outweighed exactly at the threshold: the strength is
\* 0.66 and the round is approved
C21_Witness ==
    /\ m_op = "calculate_consensus"
    /\ m_arg.num_voters >= 2
    /\ \E p \in 1..m_arg.num_voters : m_arg.outcomes[p] = "reject"
    /\ FracEq(m_ret.strength, Frac(66, 100))
    /\ m_ret.result = "approved"

\* C22: on an empty list of votes (vote with num_voters = 0) the consensus
\* has strength 0.0 and result "no_consensus"; nothing is divided by zero and
\* nothing is raised.
C22_EmptyVoteNoConsensus ==
    (m_op \in {"vote", "calculate_consensus"} /\ m_arg.num_voters = 0) =>
        /\ m_ret.kind = "return"
        /\ m_ret.strength.den > 0
        /\ m_ret.strength.num = 0
        /\ m_ret.result = "no_consensus"

\* vote ran without voters on an orchestrator whose ledger holds scores
C22_Witness ==
    /\ m_op = "vote"
    /\ m_arg.num_voters = 0
    /\ m_ret.result = "no_consensus"
    /\ DOMAIN m_ledger # {}

\* C29: for num_voters >= 1 and every ledger, vote returns strength 1.0 and
\* "approved", unless every participating voter has reputation 0, when it
\* returns strength 0 and "rejected"; a voter never written to the ledger
\* votes with reputation 50 and weight 0.5.
C29_VoteApprovesUnlessAllZero ==
    (m_op = "vote" /\ m_arg.num_voters >= 1) =>
        LET voters == 1..m_arg.num_voters
            allZero == \A p \in voters :
                          /\ VoterName(p - 1) \in DOMAIN m_ledger
                          /\ m_ledger[VoterName(p - 1)] = 0
        IN /\ m_ret.kind = "return"
           /\ Len(m_ret.votes) = m_arg.num_voters
           /\ IF allZero
              THEN /\ FracEq(m_ret.strength, Frac(0, 1))
                   /\ m_ret.result = "rejected"
              ELSE /\ FracEq(m_ret.strength, Frac(1, 1))
                   /\ m_ret.result = "approved"
           /\ \A p \in voters :
                  VoterName(p - 1) \notin DOMAIN m_ledger =>
                      /\ m_ret.votes[p].reputation = 50
                      /\ FracEq(m_ret.votes[p].weight, Frac(1, 2))

\* three voters, one holding reputation 0, one holding a low reputation and
\* one never written, and the round is approved
C29_Witness ==
    /\ m_op = "vote"
    /\ m_arg.num_voters = 3
    /\ \E p, q, r \in 1..3 :
          /\ VoterName(p - 1) \in DOMAIN m_ledger /\ RepOf(p) = 0
          /\ VoterName(q - 1) \in DOMAIN m_ledger /\ RepOf(q) = 34
          /\ VoterName(r - 1) \notin DOMAIN m_ledger
    /\ m_ret.result = "approved"

\* the components of the tree handed to execute
ExecutedTree == DecomposeResult(m_arg.level, m_arg.depth).components

C28_ScoreIsStrength ==
    (v_pc = "returned" /\ v_op = "apply_voting" /\ v_inputs # <<>>) =>
        LET cs == v_ret.voting.consensus_strength IN
        /\ v_ret.kind = "return"
        /\ FracEq(v_ret.quality_score, cs)
        /\ v_ret.voting.all_agree => cs.num = cs.den
        /\ v_ret.verified <=> 10 * cs.num >= 7 * cs.den

\* a unanimous round: the bonus was granted and the score is still 1.0
C28_Witness ==
    /\ v_pc = "returned"
    /\ v_op = "apply_voting"
    /\ Len(v_inputs) >= 2
    /\ v_ret.voting.all_agree
    /\ FracEq(v_ret.quality_score, Frac(1, 1))

\* the body of execute_task raised: a verifier of its round raised, or the
\* round was never started
ExecuteTaskRaised ==
    \/ q_tasks = <<>>
    \/ \E i \in 1..Len(q_tasks) : q_tasks[i].st = "raised"

\* C25: execute_task never propagates an exception: when verification raises
\* it returns a verdict with an error, verified false and quality_score 0.0.
C25_ExecuteTaskNeverRaises ==
    (q_pc = "done" /\ q_op = "execute_task") =>
        /\ q_ret.kind = "return"
        /\ ExecuteTaskRaised =>
              /\ q_ret.error # ""
              /\ ~q_ret.verified
              /\ q_ret.quality_score.num = 0
        /\ ~ExecuteTaskRaised => q_ret.error = ""

\* a verifier of the round of execute_task raised while another was still
\* asleep, and execute_task returned the error verdict
C25_Witness ==
    /\ q_pc = "done"
    /\ q_op = "execute_task"
    /\ \E i, j \in 1..Len(q_tasks) :
          q_tasks[i].st = "raised" /\ q_tasks[j].st = "sleeping"
    /\ q_ret.error = "TypeError"

\* C27: for every integer target and max_depth decompose divides by zero
\* nowhere: no ZeroDivisionError leaves the call, and when the component
\* count, the divisor of the lower levels, is 0 (or negative) the tree has no
\* components and so no subtasks and no steps.
C27_NoDivisionByZero ==
    Returned =>
        /\ d_ret.status # "ZeroDivisionError"
        /\ d_ret.status = "decomposed"
        /\ Min(d_level \div 10, 10) <= 0 =>
              Comps = <<>> /\ LeafCount(Comps) = 0

\* a call whose component count is 0 with max_depth 3: both later divisors
\* would be 0
C27_Witness ==
    /\ Returned
    /\ d_level \in 1..9
    /\ d_depth = 3
    /\ d_ret.status = "decomposed"
    /\ Comps = <<>>

(***************************************************************************)
(* Properties of the Hydra heads (SpecHydra, SpecOps)                      *)
(***************************************************************************)
\* C26: submit_transaction on a head that is not open (created and never
\* opened, or closed) is rejected with "Head not open" and appends nothing to
\* the transaction log of that head.
C26_SubmitNeedsOpenHead ==
    [][(/\ y_op' = "submit_transaction"
        /\ y_arg'.head \in DOMAIN y_heads
        /\ y_heads[y_arg'.head].status # "open") =>
            /\ y_ret'.kind = "raise"
            /\ y_ret'.exc = "Head not open"
            /\ y_heads' = y_heads]_vars

\* C30: after any sequence of creates and closes a create yields an id that
\* is not registered yet, leaves the registered heads as they are and adds
\* one to their number, and metrics["active_heads"] always equals the number
\* of registered heads.
C30_CreateYieldsFreshId ==
    [][/\ o_op' = "create" =>
             /\ o_ret'.head_id \notin DOMAIN o_heads
             /\ \A h \in DOMAIN o_heads :
                    h \in DOMAIN o_heads' /\ o_heads'[h] = o_heads[h]
             /\ Cardinality(DOMAIN o_heads') = Cardinality(DOMAIN o_heads) + 1
       /\ o_metrics'.active_heads = Cardinality(DOMAIN o_heads')]_vars

(***************************************************************************)
(* Properties of a run over the leaves (SpecLeafFair)                      *)
(***************************************************************************)
Verdict(solution) ==
    IF solution.status \in {"success", "completed"} THEN "accepted"
    ELSE "rejected"

\* where leaf i stands in pending -> solved -> verifying -> accepted/rejected
LeafState(i) ==
    IF s_op = "maker_execute"
    THEN IF i <= Len(s_out) THEN Verdict(s_out[i]) ELSE "pending"
    ELSE IF s_pc = "solve"
    THEN IF i <= Len(s_solutions) THEN "solved" ELSE "pending"
    ELSE IF s_pc = "test"
    THEN IF i < s_i THEN Verdict(s_solutions[i])
         ELSE IF i = s_i /\ s_busy THEN "verifying" ELSE "solved"
    ELSE IF i <= Len(s_out) THEN Verdict(s_out[i])
    ELSE IF s_pc = "refine" /\ s_busy /\ i = s_i THEN "pending"
    ELSE Verdict(s_solutions[i])

LeafSteps == {<<"pending", "solved">>, <<"solved", "verifying">>,
              <<"verifying", "accepted">>, <<"verifying", "rejected">>,
              <<"rejected", "pending">>, <<"pending", "accepted">>}

\* the leaf has been through refinement
Refined(i) == i <= Len(s_out) /\ s_out[i].refined

AllLeavesTerminal ==
    \A i \in 1..s_n : LeafState(i) \in {"accepted", "rejected"}

====
